---- MODULE Spec2Model ----
(***************************************************************************)
(* A model of inStrain/readComparer.py: the per-scaffold comparison        *)
(* scheduler (compare_scaffolds), the pairwise comparison of one scaffold  *)
(* (compare_scaffold, _calc_mm2overlap, _calc_SNP_count_alternate,         *)
(* _update_overlap_table), the classification of one position             *)
(* (call_con_snps, call_pop_snps, is_present), the genome-wide aggregation *)
(* (calc_cov_ani) and the greedy clustering (greedy_main).                 *)
(***************************************************************************)
EXTENDS Integers, Sequences, FiniteSets, TLC

(***************************************************************************)
(* Bounds of the model.                                                    *)
(***************************************************************************)
\* longest list of scaffolds handed to compare_scaffolds
MaxScaffolds == 2

\* reference positions are 1..MaxPos
MaxPos == 2

\* mismatch levels are 0..MaxMM
MaxMM == 1

\* largest depth one mismatch level contributes at one position
MaxDepth == 2

\* most (sample, level, position) depth entries of a pair of covTs
MaxCovEntries == 4

\* most rows of a comparison table handed to calc_cov_ani
MaxTableRows == 3

\* largest compared-base count of such a row
MaxBases == 2

\* most variant rows of the two samples of a pair together
MaxSNPRows == 2

\* most samples handed to compare_scaffold or greedy_main
MaxSamples == 3

\* largest count of one base in a variant row
MaxCount == 3

(***************************************************************************)
(* Generic helpers.                                                        *)
(***************************************************************************)
Range(f) == {f[i] : i \in DOMAIN f}

Min(a, b) == IF a <= b THEN a ELSE b

\* Python's s[:n] on a string
PyPrefix(s, n) == SubSeq(s, 1, Min(n, Len(s)))

\* Python's s[n:] on a string
PySuffix(s, n) == IF n >= Len(s) THEN <<>> ELSE SubSeq(s, n + 1, Len(s))

\* all sequences without repetition over S of length 1..n
DistinctSeqs(S, n) ==
    {q \in UNION {[1..k -> S] : k \in 1..n} :
        \A i, j \in DOMAIN q : i # j => q[i] # q[j]}

(***************************************************************************)
(* The scheduler: compare_scaffolds and scaffold_profile_wrapper.          *)
(* Scaffold names are strings, modelled as sequences of characters because *)
(* the code slices them.                                                   *)
(***************************************************************************)
SkipPrefix == <<"s", "k", "i", "p">>

SkipMark == <<"s", "k", "i", "p", "_">>

ScaffoldNames == { <<"a">>, <<"b">>, SkipMark \o <<"a">> }

\* the values of the processes option: sequential, or a process pool
ProcessOptions == {1, 2}

VARIABLES
    scaffolds_to_compare, \* the requested scaffolds, a list without repetition
    processes,            \* kwargs['processes']
    hasData,              \* scaffold -> at least two samples have covT for it
    pc,                   \* position of compare_scaffolds
    pending,              \* scaffolds whose task has been issued and not collected
    attempts,             \* scaffold -> outcomes of its tasks so far, in order
    ScaffProfiles,        \* the list of collected results
    skipped,              \* the set computed at line 406
    failed_scaffs,        \* the set computed at line 409
    Cdb,                  \* the returned comparison table (scaffold of each block of rows)
    err                   \* the exception compare_scaffolds raised, or "none"

schedVars == <<scaffolds_to_compare, processes, hasData, pc, pending, attempts,
               ScaffProfiles, skipped, failed_scaffs, Cdb, err>>

VARIABLES
    covT1,        \* first sample: mismatch level -> (position -> depth)
    covT2,        \* second sample
    min_cov,      \* kwargs['min_cov']
    mm2overlap,   \* returned: mismatch level -> positions covered in both
    mm2coverage,  \* returned: mismatch level -> coverage overlap
    cpc           \* "input" before the call of _calc_mm2overlap, "done" after

covVars == <<covT1, covT2, min_cov, mm2overlap, mm2coverage, cpc>>

VARIABLES
    aniCdb,      \* the comparison table handed to calc_cov_ani
    g_mm,        \* kwargs['g_mm'] as a list, empty when the option is absent
    BIN_LENGTH,  \* the genome length
    aniResult,   \* the returned pair (popANI, coverage)
    apc          \* "input" before the call of calc_cov_ani, "done" after

aniVars == <<aniCdb, g_mm, BIN_LENGTH, aniResult, apc>>

VARIABLES
    samples,                   \* the profiles handed to compare_scaffold, in order
    include_self_comparisons,  \* kwargs['include_self_comparisons']
    kwargs_min_cov,            \* kwargs['min_cov'] as a list, empty when absent
    min_freq,                  \* kwargs['min_freq'] as a list, empty when absent
    scaffResult,               \* what compare_scaffold returned
    ppc                        \* "input" before the call of compare_scaffold, "done" after

pairVars == <<samples, include_self_comparisons, kwargs_min_cov, min_freq, scaffResult, ppc>>

VARIABLES
    names,         \* the sample names handed to greedy_main, in order
    g_ani,         \* kwargs['g_ani'] as a list, empty when absent
    g_cov,         \* kwargs['g_cov'] as a list, empty when absent
    name2cluster,  \* name -> cluster id
    cluster2rep,   \* cluster id -> name of the representative
    clusters,      \* the next unused cluster id
    cursor,        \* index in names of the next sample of the loop
    Ddb,           \* the Ddb of the last compare_Sprofiles_wrapper call
    ndbs,          \* number of tables collected in ndbs
    gpc,           \* position of greedy_main
    gerr           \* the exception greedy_main raised, or "none"

greedyVars == <<names, g_ani, g_cov, name2cluster, cluster2rep, clusters, cursor,
                Ddb, ndbs, gpc, gerr>>

VARIABLES
    mergedRow,        \* a row of the merged table: position, r1, r2
    hasMinorColumns,  \* both tables have the column allele_count (or morphia)
    rowMinFreq,       \* the min_freq option of compare_scaffold as a list, empty when absent
    rowFlags,         \* the values of consensus_SNP and population_SNP for the row
    rpc               \* "input" before the two calls, "done" after

rowVars == <<mergedRow, hasMinorColumns, rowMinFreq, rowFlags, rpc>>

VARIABLES
    presentCount,   \* the counts argument of is_present
    presentTotal,   \* the total argument of is_present
    presentFreq,    \* the min_freq argument of is_present
    presentResult,  \* what the call returned or raised
    ipc             \* "input" before the call of is_present, "done" after

presentVars == <<presentCount, presentTotal, presentFreq, presentResult, ipc>>

vars == <<schedVars, covVars, aniVars, pairVars, greedyVars, rowVars, presentVars>>

otherThanSched == <<covVars, aniVars, pairVars, greedyVars, rowVars, presentVars>>

otherThanCov == <<schedVars, aniVars, pairVars, greedyVars, rowVars, presentVars>>

otherThanAni == <<schedVars, covVars, pairVars, greedyVars, rowVars, presentVars>>

otherThanPair == <<schedVars, covVars, aniVars, greedyVars, rowVars, presentVars>>

otherThanGreedy == <<schedVars, covVars, aniVars, pairVars, rowVars, presentVars>>

otherThanRow == <<schedVars, covVars, aniVars, pairVars, greedyVars, presentVars>>

otherThanPresent == <<schedVars, covVars, aniVars, pairVars, greedyVars, rowVars>>

IdleGreedy ==
    /\ names = <<>>
    /\ g_ani = <<>>
    /\ g_cov = <<>>
    /\ name2cluster = <<>>
    /\ cluster2rep = <<>>
    /\ clusters = 0
    /\ cursor = 0
    /\ Ddb = <<>>
    /\ ndbs = 0
    /\ gpc = "idle"
    /\ gerr = "none"

IdleRow ==
    /\ mergedRow = <<>>
    /\ hasMinorColumns = FALSE
    /\ rowMinFreq = <<>>
    /\ rowFlags = <<>>
    /\ rpc = "idle"
    /\ presentCount = 0
    /\ presentTotal = 0
    /\ presentFreq = <<>>
    /\ presentResult = "none"
    /\ ipc = "idle"

IdlePair ==
    /\ samples = <<>>
    /\ include_self_comparisons = FALSE
    /\ kwargs_min_cov = <<>>
    /\ min_freq = <<>>
    /\ scaffResult = <<>>
    /\ ppc = "idle"

\* the variables of the parts that a specification leaves alone
IdleSched ==
    /\ scaffolds_to_compare = <<>>
    /\ processes = 1
    /\ hasData = <<>>
    /\ pc = "idle"
    /\ pending = {}
    /\ attempts = <<>>
    /\ ScaffProfiles = <<>>
    /\ skipped = {}
    /\ failed_scaffs = {}
    /\ Cdb = <<>>
    /\ err = "none"

IdleAni ==
    /\ aniCdb = <<>>
    /\ g_mm = <<>>
    /\ BIN_LENGTH = 1
    /\ aniResult = <<>>
    /\ apc = "idle"

IdleCov ==
    /\ covT1 = <<>>
    /\ covT2 = <<>>
    /\ min_cov = 1
    /\ mm2overlap = <<>>
    /\ mm2coverage = <<>>
    /\ cpc = "idle"

\* what compare_scaffold returns for a scaffold with data in >= 2 samples:
\* [table, Mdb, pair2mm2covOverlap, scaffold]; the table's rows are
\* identified by the scaffold they belong to
NormalResult(scaffold) ==
    [kind |-> "list", rows |-> <<scaffold>>, s3 |-> scaffold]

\* what compare_scaffold returns when fewer than two samples have data:
\* [DataFrame(), DataFrame(), {}, 'skip_<scaffold>']
SkippedResult(scaffold) ==
    [kind |-> "list", rows |-> <<>>, s3 |-> SkipMark \o scaffold]

\* what scaffold_profile_wrapper returns when compare_scaffold raised:
\* pd.DataFrame({'Failed': [True]}), a frame of one row and one column
FailureMarker == [kind |-> "frame", rows |-> <<>>, s3 |-> <<>>]

\* the scaffold-level outcome of compare_scaffold
compare_scaffold_result(scaffold, enough) ==
    IF enough THEN NormalResult(scaffold) ELSE SkippedResult(scaffold)

scaffold_profile_wrapper(scaffold, enough, outcome) ==
    IF outcome = "raise"
    THEN FailureMarker
    ELSE compare_scaffold_result(scaffold, enough)

\* s[3] is defined on the 4-lists only: indexing the marker frame with 3
\* is a KeyError
CanIndex3(s) == s.kind = "list"

\* len(s): 4 for the lists, the number of rows (1) for the marker frame
PyLen(s) == IF s.kind = "list" THEN 4 ELSE 1

\* line 406 with the slice taken one character early ([4:] for [5:])
SkippedSetSliceFour(profiles) ==
    {PySuffix(profiles[i].s3, 4) :
        i \in {k \in DOMAIN profiles : PyPrefix(profiles[k].s3, 4) = SkipPrefix}}

\* line 406 with only the first collected result examined
SkippedSetOfFirst(profiles) ==
    IF profiles # <<>> /\ PyPrefix(profiles[1].s3, 4) = SkipPrefix
    THEN {PySuffix(profiles[1].s3, 5)}
    ELSE {}

\* line 406
SkippedSet(profiles) ==
    {PySuffix(profiles[i].s3, 5) :
        i \in {k \in DOMAIN profiles : PyPrefix(profiles[k].s3, 4) = SkipPrefix}}

\* line 409
FailedSet(requested, profiles, skip) ==
    (Range(requested) \ {profiles[i].s3 : i \in DOMAIN profiles}) \ skip

\* lines 426-437: the tables kept for the output, in list order
RECURSIVE KeptTables(_)
KeptTables(profiles) ==
    IF profiles = <<>> THEN <<>>
    ELSE LET s == Head(profiles)
             rest == KeptTables(Tail(profiles))
         IN  IF PyLen(s) # 4 THEN rest
             ELSE IF PyPrefix(s.s3, 4) = SkipPrefix THEN rest
             ELSE <<s.rows>> \o rest

\* pd.concat over the kept tables
RECURSIVE Concat(_)
Concat(dbs) == IF dbs = <<>> THEN <<>> ELSE Head(dbs) \o Concat(Tail(dbs))

\* position of a scaffold in the requested list
IndexOf(q, x) == CHOOSE i \in DOMAIN q : q[i] = x

InitSched ==
    /\ scaffolds_to_compare \in DistinctSeqs(ScaffoldNames, MaxScaffolds)
    /\ processes \in ProcessOptions
    /\ hasData \in [ScaffoldNames -> BOOLEAN]
    /\ pc = "first"
    /\ pending = Range(scaffolds_to_compare)
    /\ attempts = [s \in ScaffoldNames |-> <<>>]
    /\ ScaffProfiles = <<>>
    /\ skipped = {}
    /\ failed_scaffs = {}
    /\ Cdb = <<>>
    /\ err = "none"
    /\ IdleCov
    /\ IdleAni
    /\ IdlePair
    /\ IdleGreedy
    /\ IdleRow

\* lines 400-403: processes <= 1, the commands run in list order in-process
RunSequential ==
    /\ pc = "first"
    /\ processes <= 1
    /\ pending # {}
    /\ \E scaffold \in pending, outcome \in {"ok", "raise"} :
        /\ \A other \in pending :
              IndexOf(scaffolds_to_compare, scaffold) <= IndexOf(scaffolds_to_compare, other)
        /\ ScaffProfiles' = Append(ScaffProfiles,
                                   scaffold_profile_wrapper(scaffold, hasData[scaffold], outcome))
        /\ attempts' = [attempts EXCEPT ![scaffold] = Append(@, outcome)]
        /\ pending' = pending \ {scaffold}
    /\ UNCHANGED <<scaffolds_to_compare, processes, hasData, pc, skipped, failed_scaffs, Cdb, err>>
    /\ UNCHANGED otherThanSched

\* lines 386-397: a future of the process pool completes, in any order; its
\* result is appended unless f.result() raises (outcome "lost": the worker
\* process died), which is logged and dropped
CollectFromProcessPool ==
    /\ pc = "first"
    /\ processes > 1
    /\ \E scaffold \in pending, outcome \in {"ok", "raise", "lost"} :
        /\ ScaffProfiles' =
              IF outcome = "lost" THEN ScaffProfiles
              ELSE Append(ScaffProfiles,
                          scaffold_profile_wrapper(scaffold, hasData[scaffold], outcome))
        /\ attempts' = [attempts EXCEPT ![scaffold] = Append(@, outcome)]
        /\ pending' = pending \ {scaffold}
    /\ UNCHANGED <<scaffolds_to_compare, processes, hasData, pc, skipped, failed_scaffs, Cdb, err>>
    /\ UNCHANGED otherThanSched

\* lines 405-416: classify the collected results and submit the failed
\* scaffolds to the thread pool
Classify ==
    /\ pc = "first"
    /\ pending = {}
    /\ IF \E i \in DOMAIN ScaffProfiles : ~CanIndex3(ScaffProfiles[i])
       THEN /\ pc' = "raised"
            /\ err' = "KeyError"
            /\ UNCHANGED <<skipped, failed_scaffs, pending>>
       ELSE /\ skipped' = SkippedSet(ScaffProfiles)
            /\ failed_scaffs' = FailedSet(scaffolds_to_compare, ScaffProfiles, skipped')
            /\ pending' = failed_scaffs'
            /\ pc' = IF failed_scaffs' # {} THEN "retry" ELSE "assemble"
            /\ err' = err
    /\ UNCHANGED <<scaffolds_to_compare, processes, hasData, attempts, ScaffProfiles, Cdb>>
    /\ UNCHANGED otherThanSched

\* lines 417-419: a future of the retry (thread) pool completes
CollectFromThreadPool ==
    /\ pc = "retry"
    /\ \E scaffold \in pending, outcome \in {"ok", "raise"} :
        /\ ScaffProfiles' = Append(ScaffProfiles,
                                   scaffold_profile_wrapper(scaffold, hasData[scaffold], outcome))
        /\ attempts' = [attempts EXCEPT ![scaffold] = Append(@, outcome)]
        /\ pending' = pending \ {scaffold}
        /\ pc' = IF pending' = {} THEN "assemble" ELSE "retry"
    /\ UNCHANGED <<scaffolds_to_compare, processes, hasData, skipped, failed_scaffs, Cdb, err>>
    /\ UNCHANGED otherThanSched

\* lines 421-444: keep the tables of the normal results and concatenate
\* them; pd.concat of an empty list is a ValueError
Assemble ==
    /\ pc = "assemble"
    /\ LET dbs == KeptTables(ScaffProfiles)
       IN  IF dbs = <<>>
           THEN /\ pc' = "raised"
                /\ err' = "ValueError"
                /\ Cdb' = Cdb
           ELSE /\ pc' = "done"
                /\ Cdb' = Concat(dbs)
                /\ err' = err
    /\ UNCHANGED <<scaffolds_to_compare, processes, hasData, pending, attempts,
                   ScaffProfiles, skipped, failed_scaffs>>
    /\ UNCHANGED otherThanSched

NextSched ==
    \/ RunSequential
    \/ CollectFromProcessPool
    \/ Classify
    \/ CollectFromThreadPool
    \/ Assemble

SpecSched == InitSched /\ [][NextSched]_vars

(***************************************************************************)
(* Coverage overlap: _calc_mm2overlap.                                     *)
(* A pandas Series of depths is a function from the positions of its index *)
(* to depths; a covT is a function from the mismatch levels it has to such *)
(* Series.  A fraction n/d is the record [num |-> n, den |-> d].           *)
(***************************************************************************)
Positions == 1..MaxPos

Levels == 0..MaxMM

Frac(n, d) == [num |-> n, den |-> d]

\* the ascending list of a finite set of integers (Python's sorted)
RECURSIVE Sorted(_)
Sorted(S) ==
    IF S = {} THEN <<>>
    ELSE LET m == CHOOSE x \in S : \A y \in S : x <= y
         IN  <<m>> \o Sorted(S \ {m})

EmptySeries == <<>>

\* lines 641, 643 with the running depth overwritten instead of accumulated
SeriesAssign(a, b) == b

\* Series.add(other, fill_value=0)
SeriesAdd(a, b) ==
    [p \in (DOMAIN a) \cup (DOMAIN b) |->
        (IF p \in DOMAIN a THEN a[p] ELSE 0) + (IF p \in DOMAIN b THEN b[p] ELSE 0)]

\* lines 646-647: set(cov[(cov >= min_cov)].index)
CoveredIndex(cov, minCov) == {p \in DOMAIN cov : cov[p] >= minCov}

\* lines 649-659 with the fraction taken over the first sample's positions
CoverageFractionOverFirst(T1, T2) ==
    IF Cardinality(T1) > 0
    THEN Frac(Cardinality(T1 \cap T2), Cardinality(T1))
    ELSE Frac(0, 1)

\* lines 649-659: len(coveredInBoth) / len(coveredInEither), or 0
CoverageFraction(T1, T2) ==
    IF Cardinality(T1 \cup T2) > 0
    THEN Frac(Cardinality(T1 \cap T2), Cardinality(T1 \cup T2))
    ELSE Frac(0, 1)

\* lines 639-663: the loop over the sorted mismatch levels; cov1 and cov2
\* are the running depths, acc the two dictionaries built so far
RECURSIVE OverlapLoop(_, _, _, _, _, _, _)
OverlapLoop(mms, c1, c2, minCov, cov1, cov2, acc) ==
    IF mms = <<>> THEN acc
    ELSE LET mm == Head(mms)
             n1 == IF mm \in DOMAIN c1 THEN SeriesAdd(cov1, c1[mm]) ELSE cov1
             n2 == IF mm \in DOMAIN c2 THEN SeriesAdd(cov2, c2[mm]) ELSE cov2
             T1 == CoveredIndex(n1, minCov)
             T2 == CoveredIndex(n2, minCov)
         IN  OverlapLoop(Tail(mms), c1, c2, minCov, n1, n2,
                 [mm2overlap |-> acc.mm2overlap @@ (mm :> (T1 \cap T2)),
                  mm2coverage |-> acc.mm2coverage @@ (mm :> CoverageFraction(T1, T2))])

\* lines 619-665
calc_mm2overlap(c1, c2, minCov) ==
    OverlapLoop(Sorted((DOMAIN c1) \cup (DOMAIN c2)), c1, c2, minCov,
                EmptySeries, EmptySeries,
                [mm2overlap |-> <<>>, mm2coverage |-> <<>>])

\* Inputs: the depth entries of a pair of covTs, at most MaxCovEntries of
\* them, no two for the same sample, level and position, each of depth 1
\* or MaxDepth.  The slots (sample, level, position) are numbered from 0.
NumSlots == 2 * (MaxMM + 1) * MaxPos

SlotEntry(n, d) ==
    [sample |-> (n \div ((MaxMM + 1) * MaxPos)) + 1,
     mm |-> (n \div MaxPos) % (MaxMM + 1),
     position |-> (n % MaxPos) + 1,
     depth |-> d]

\* the strictly increasing lists of k slots
IncreasingSlots(k) ==
    {q \in [1..k -> 0..(NumSlots - 1)] : \A i \in 1..(k - 1) : q[i] < q[i + 1]}

EntriesOf(slots, depths) == {SlotEntry(slots[i], depths[i]) : i \in DOMAIN slots}

\* the covT of one sample that a set of entries describes
CovTOf(entries, sample) ==
    LET mine == {e \in entries : e.sample = sample}
    IN  [mm \in {e.mm : e \in mine} |->
            [p \in {e.position : e \in {f \in mine : f.mm = mm}} |->
                (CHOOSE e \in mine : e.mm = mm /\ e.position = p).depth]]

\* the values of the min_cov option: one level's largest depth reaches it,
\* smaller depths reach it only summed over levels
MinCovOptions == {MaxDepth}

InitCov ==
    /\ \E k \in 0..MaxCovEntries :
        \E slots \in IncreasingSlots(k), depths \in [1..k -> {1, MaxDepth}] :
            /\ covT1 = CovTOf(EntriesOf(slots, depths), 1)
            /\ covT2 = CovTOf(EntriesOf(slots, depths), 2)
    /\ min_cov \in MinCovOptions
    /\ mm2overlap = <<>>
    /\ mm2coverage = <<>>
    /\ cpc = "input"
    /\ IdleSched
    /\ IdleAni
    /\ IdlePair
    /\ IdleGreedy
    /\ IdleRow

CalcOverlap ==
    /\ cpc = "input"
    /\ LET r == calc_mm2overlap(covT1, covT2, min_cov)
       IN  /\ mm2overlap' = r.mm2overlap
           /\ mm2coverage' = r.mm2coverage
    /\ cpc' = "done"
    /\ UNCHANGED <<covT1, covT2, min_cov>>
    /\ UNCHANGED otherThanCov

NextCov == CalcOverlap

SpecCov == InitCov /\ [][NextCov]_vars

(***************************************************************************)
(* Genome-wide aggregation: calc_cov_ani.                                  *)
(* A table is the list of its rows; NaN is the fraction 0/0; an option of   *)
(* kwargs is the list of its value, empty when the option is not given.    *)
(***************************************************************************)
NaN == Frac(0, 0)

\* Python's a == a, false on NaN only
IsNumber(a) == a.den # 0

FracAdd(a, b) == Frac(a.num * b.den + b.num * a.den, a.den * b.den)

FracEq(a, b) == a.num * b.den = b.num * a.den

\* line 177
DefaultGmm == 100

\* the rows of q at the indices I, in order
Pick(q, I) == LET idx == Sorted(I) IN [k \in 1..Len(idx) |-> q[idx[k]]]

\* DataFrame.sort_values('mm'): ascending, rows of equal mm in table order
RECURSIVE SortByMM(_)
SortByMM(q) ==
    IF q = <<>> THEN <<>>
    ELSE LET lo == CHOOSE i \in DOMAIN q :
                      /\ \A j \in DOMAIN q : q[i].mm <= q[j].mm
                      /\ \A j \in DOMAIN q : q[j].mm = q[i].mm => i <= j
         IN  <<q[lo]>> \o SortByMM(Pick(q, (DOMAIN q) \ {lo}))

\* the indices drop_duplicates(keep='first') keeps, keys[i] being the
\* subset columns of row i
KeepFirstIndices(keys) ==
    {i \in DOMAIN keys : \A j \in DOMAIN keys : j < i => keys[j] # keys[i]}

\* the indices drop_duplicates(keep='last') keeps
KeepLastIndices(keys) ==
    {i \in DOMAIN keys : \A j \in DOMAIN keys : j > i => keys[j] # keys[i]}

PairKey(r) == <<r.scaffold, r.name1, r.name2>>

\* line 179
DedupedRows(table, ceiling) ==
    LET kept == SortByMM(Pick(table, {i \in DOMAIN table : table[i].mm <= ceiling}))
    IN  Pick(kept, KeepLastIndices([i \in DOMAIN kept |-> PairKey(kept[i])]))

\* sum(db['compared_bases_count'])
RECURSIVE SumBases(_)
SumBases(db) ==
    IF db = <<>> THEN 0 ELSE Head(db).compared_bases_count + SumBases(Tail(db))

\* lines 185-186: sum(a * c if a == a else 0 ...)
RECURSIVE WeightedANI(_)
WeightedANI(db) ==
    IF db = <<>> THEN Frac(0, 1)
    ELSE LET a == Head(db).popANI
             c == Head(db).compared_bases_count
             term == IF IsNumber(a) THEN Frac(a.num * c, a.den) ELSE Frac(0, 1)
         IN  FracAdd(term, WeightedANI(Tail(db)))

\* lines 171-188
calc_cov_ani(table, binLength, gmm) ==
    LET ceiling == IF gmm = <<>> THEN DefaultGmm ELSE gmm[1]
        db == DedupedRows(table, ceiling)
        tcb == SumBases(db)
        w == WeightedANI(db)
    IN  [popANI |-> IF tcb = 0 THEN NaN ELSE Frac(w.num, w.den * tcb),
         cov |-> Frac(tcb, binLength)]

\* Inputs: tables of at most MaxTableRows rows, no two with the same
\* scaffold, pair and mismatch level, listed from the highest level down
\* (so that the sort of line 179 has work to do); the genome is the two
\* scaffolds, each of length MaxBases.
AniKeys == { <<"a">>, <<"b">> }

PopANIValues == {NaN, Frac(1, 2), Frac(1, 1)}

AniRow(n, ani, bases) ==
    [scaffold |-> IF n \div (MaxMM + 1) = 0 THEN <<"a">> ELSE <<"b">>,
     name1 |-> "s1", name2 |-> "s2",
     mm |-> n % (MaxMM + 1),
     popANI |-> ani,
     compared_bases_count |-> bases]

IncreasingBelow(k, n) ==
    {q \in [1..k -> 0..(n - 1)] : \A i \in 1..(k - 1) : q[i] < q[i + 1]}

Reversed(q) == [i \in DOMAIN q |-> q[Len(q) + 1 - i]]

InitAni ==
    /\ \E k \in 0..MaxTableRows :
        \E slots \in IncreasingBelow(k, 2 * (MaxMM + 1)),
           anis \in [1..k -> PopANIValues],
           bases \in [1..k -> 0..MaxBases] :
            aniCdb = Reversed([i \in 1..k |-> AniRow(slots[i], anis[i], bases[i])])
    /\ g_mm \in {<<>>} \cup {<<l>> : l \in Levels}
    /\ BIN_LENGTH = Cardinality(AniKeys) * MaxBases
    /\ aniResult = <<>>
    /\ apc = "input"
    /\ IdleSched
    /\ IdleCov
    /\ IdlePair
    /\ IdleGreedy
    /\ IdleRow

CalcCovAni ==
    /\ apc = "input"
    /\ aniResult' = calc_cov_ani(aniCdb, BIN_LENGTH, g_mm)
    /\ apc' = "done"
    /\ UNCHANGED <<aniCdb, g_mm, BIN_LENGTH>>
    /\ UNCHANGED otherThanAni

NextAni == CalcCovAni

SpecAni == InitAni /\ [][NextAni]_vars

(***************************************************************************)
(* One scaffold: compare_scaffold, _get_SNP_table,                         *)
(* _calc_SNP_count_alternate, call_con_snps, is_present, call_pop_snps and *)
(* _update_overlap_table.                                                  *)
(* A variant row is a record of its columns, the four per-base counts      *)
(* being the function counts; a base that is NaN is the string "NaN".      *)
(* A call that can raise returns "True", "False" or the exception's name.  *)
(***************************************************************************)
Bases == {"A", "C", "T", "G"}

NoBase == "NaN"

\* Python's == on two bases, false when either is NaN
PyEqBase(a, b) == a # NoBase /\ b # NoBase /\ a = b

\* the detection thresholds of the null model for depths 1, 2, ...
ModelTable == <<2, 2, 2>>

\* model[total]: the threshold of the nearest depth of the table
ModelThreshold(total) ==
    IF total < 1 THEN ModelTable[1]
    ELSE IF total > Len(ModelTable) THEN ModelTable[Len(ModelTable)]
    ELSE ModelTable[total]

\* line 539
DefaultMinCov == 5

\* line 540
DefaultMinFreq == Frac(5, 1)

\* line 540: kwargs.get('min_freq', 5)
MinFreqOf(opt) == IF opt = <<>> THEN DefaultMinFreq ELSE opt[1]

\* lines 504-520: the sample's variant rows of the scaffold, sorted by mm
get_SNP_table(sample) == SortByMM(sample.snvRows)

\* the columns of a position that one of the two tables does not have
AbsentRow ==
    [position |-> 0, mm |-> 0, conBase |-> NoBase, refBase |-> NoBase, varBase |-> NoBase,
     baseCoverage |-> 0, counts |-> [b \in Bases |-> 0], allele_count |-> 0]

\* lines 854-858 with a base that is NaN taken as equal to any base
BothCalledAndDiffer(row) ==
    /\ row.r1.conBase # NoBase
    /\ row.r2.conBase # NoBase
    /\ row.r1.conBase # row.r2.conBase

\* lines 854-858
call_con_snps(row) == ~PyEqBase(row.r1.conBase, row.r2.conBase)

\* lines 860-864
is_present(counts, total, minFreq) ==
    IF counts >= ModelThreshold(total)
    THEN IF total = 0 THEN "ZeroDivisionError"
         ELSE IF counts * minFreq.den >= minFreq.num * total THEN "True" ELSE "False"
    ELSE "False"

\* lines 878-894 with the consensus base looked for instead of the
\* reference base
OneSidedByConsensus(present, minFreq) ==
    LET found == is_present(present.counts[present.conBase], present.baseCoverage, minFreq)
    IN  IF found = "True" THEN "False"
        ELSE IF found = "False" THEN "True"
        ELSE found

\* lines 878-894: the position is in one table only
OneSidedPopSNP(present, minFreq) ==
    LET found == is_present(present.counts[present.refBase], present.baseCoverage, minFreq)
    IN  IF found = "True" THEN "False"
        ELSE IF found = "False" THEN "True"
        ELSE found

\* lines 913-924: the rows share a minor allele; minorColumn says that both
\* tables have the column allele_count (or both have morphia)
ShareMinorAllele(row, minorColumn) ==
    /\ minorColumn
    /\ row.r1.allele_count > 1
    /\ row.r2.allele_count > 1
    /\ PyEqBase(row.r1.varBase, row.r2.varBase)

\* lines 898-911 with the look for conBase_2 in sample 1 left out
FoundInOtherFirstOnly(row, minFreq) ==
    LET first == is_present(row.r2.counts[row.r1.conBase], row.r2.baseCoverage, minFreq)
    IN  IF first = "True" THEN "True" ELSE "False"

\* lines 898-911: either consensus base is detected in the other sample;
\* an exception of the first look is swallowed (try/except), one of the
\* second is raised
FoundInOther(row, minFreq) ==
    LET first == is_present(row.r2.counts[row.r1.conBase], row.r2.baseCoverage, minFreq)
        second == is_present(row.r1.counts[row.r2.conBase], row.r1.baseCoverage, minFreq)
    IN  IF first = "True" THEN "True" ELSE second

\* lines 866-924
call_pop_snps(row, minorColumn, minFreq) ==
    IF PyEqBase(row.r1.conBase, row.r2.conBase) THEN "False"
    ELSE IF row.r1.conBase = NoBase \/ row.r2.conBase = NoBase
    THEN IF row.r1.conBase = NoBase
         THEN OneSidedPopSNP(row.r2, minFreq)
         ELSE OneSidedPopSNP(row.r1, minFreq)
    ELSE LET found == FoundInOther(row, minFreq)
         IN  IF found = "True" THEN "False"
             ELSE IF found # "False" THEN found
             ELSE IF ShareMinorAllele(row, minorColumn) THEN "False"
             ELSE "True"

\* lines 828-829 with drop_duplicates left out: every row at a covered
\* position
FilteredTable(SNPtable, covs) ==
    Pick(SNPtable, {i \in DOMAIN SNPtable : SNPtable[i].position \in covs})

\* lines 828-829 with the test p in covs left out: the last row of every
\* position, covered or not
UnrestrictedTable(SNPtable, covs) ==
    Pick(SNPtable, KeepLastIndices([i \in DOMAIN SNPtable |-> SNPtable[i].position]))

\* lines 828-829: the rows at covered positions, the last one of each
\* position
RestrictedTable(SNPtable, covs) ==
    LET atCovered == Pick(SNPtable, {i \in DOMAIN SNPtable : SNPtable[i].position \in covs})
    IN  Pick(atCovered, KeepLastIndices([i \in DOMAIN atCovered |-> atCovered[i].position]))

\* pd.merge(s1_all, s2_all, on='position', how='outer'): every pair of
\* rows of equal position, then the rows of one table only
RECURSIVE Flatten(_)
Flatten(qs) == IF qs = <<>> THEN <<>> ELSE Head(qs) \o Flatten(Tail(qs))

OuterMerge(s1_all, s2_all) ==
    LET matches(i) == {j \in DOMAIN s2_all : s2_all[j].position = s1_all[i].position}
        left == [i \in DOMAIN s1_all |->
                    IF matches(i) = {}
                    THEN << [position |-> s1_all[i].position, r1 |-> s1_all[i], r2 |-> AbsentRow] >>
                    ELSE LET js == Sorted(matches(i))
                         IN  [k \in DOMAIN js |->
                                [position |-> s1_all[i].position,
                                 r1 |-> s1_all[i], r2 |-> s2_all[js[k]]]]]
        rightOnly == Pick(s2_all, {j \in DOMAIN s2_all :
                                      \A i \in DOMAIN s1_all : s1_all[i].position # s2_all[j].position})
    IN  Flatten(left) \o
        [k \in DOMAIN rightOnly |->
            [position |-> rightOnly[k].position, r1 |-> AbsentRow, r2 |-> rightOnly[k]]]

\* lines 821-849: the classified positions of one mismatch level
LevelMdb(SNPtable1, SNPtable2, mm, covs, minorColumn, minFreq) ==
    LET merged == OuterMerge(RestrictedTable(SNPtable1, covs), RestrictedTable(SNPtable2, covs))
    IN  [k \in DOMAIN merged |->
            [mm |-> mm, position |-> merged[k].position,
             r1 |-> merged[k].r1, r2 |-> merged[k].r2,
             consensus_SNP |-> call_con_snps(merged[k]),
             population_SNP |-> call_pop_snps(merged[k], minorColumn, minFreq)]]

\* lines 810-852: the levels in the order of mm2overlap, concatenated
calc_SNP_count_alternate(SNPtable1, SNPtable2, overlap, minorColumn, minFreq) ==
    LET mms == Sorted(DOMAIN overlap)
    IN  Flatten([k \in DOMAIN mms |->
                    LevelMdb(SNPtable1, SNPtable2, mms[k], overlap[mms[k]], minorColumn, minFreq)])

Raised(Mdb) == \E k \in DOMAIN Mdb : Mdb[k].population_SNP \notin {"True", "False"}

CountRows(Mdb, mm, consensus) ==
    Cardinality({k \in DOMAIN Mdb :
        /\ Mdb[k].mm = mm
        /\ IF consensus THEN Mdb[k].consensus_SNP ELSE Mdb[k].population_SNP = "True"})

\* lines 1009-1014
ANI(bases, snps) == IF bases = 0 THEN NaN ELSE Frac(bases - snps, bases)

\* lines 982-1016: the rows of one pair, one per mismatch level
update_overlap_table(scaffold, overlap, coverage, Mdb, name1, name2, mLen) ==
    LET mms == Sorted(DOMAIN overlap)
    IN  [k \in DOMAIN mms |->
            LET mm == mms[k]
                bases == Cardinality(overlap[mm])
                snps == CountRows(Mdb, mm, TRUE)
                popsnps == CountRows(Mdb, mm, FALSE)
            IN  [mm |-> mm, scaffold |-> scaffold, name1 |-> name1, name2 |-> name2,
                 coverage_overlap |-> coverage[mm],
                 compared_bases_count |-> bases,
                 percent_genome_compared |-> Frac(bases, mLen),
                 length |-> mLen,
                 consensus_SNPs |-> snps,
                 population_SNPs |-> popsnps,
                 conANI |-> ANI(bases, snps),
                 popANI |-> ANI(bases, popsnps)]]

\* lines 595-598: one pair of samples
ComparePair(scaffold, s1, s2, mLen, minCov, minFreq) ==
    LET o == calc_mm2overlap(s1.covT, s2.covT, minCov)
        Mdb == calc_SNP_count_alternate(get_SNP_table(s1), get_SNP_table(s2), o.mm2overlap,
                                        s1.minorColumn = s2.minorColumn, minFreq)
    IN  [raised |-> Raised(Mdb),
         Mdb |-> Mdb,
         rows |-> update_overlap_table(scaffold, o.mm2overlap, o.mm2coverage, Mdb,
                                       s1.name, s2.name, mLen)]

\* lines 576-580 without the test i > j
PairSkippedSelfOnly(i, j, includeSelf) == (~includeSelf) /\ i = j

\* lines 576-580: the pairs of the double loop that are passed over
PairSkipped(i, j, includeSelf) == i > j \/ ((~includeSelf) /\ i = j)

\* lines 570-580: the pairs compared, in the order of the double loop
ComparedPairs(n, includeSelf) ==
    LET all == [k \in 1..(n * n) |-> <<((k - 1) \div n) + 1, ((k - 1) % n) + 1>>]
    IN  Pick(all, {k \in DOMAIN all : ~PairSkipped(all[k][1], all[k][2], includeSelf)})

\* lines 522-617
compare_scaffold(scaffold, profiles, mLen, includeSelf, minCovOpt, minFreqOpt) ==
    LET minCov == IF minCovOpt = <<>> THEN DefaultMinCov ELSE minCovOpt[1]
        minFreq == MinFreqOf(minFreqOpt)
        cur == Pick(profiles, {i \in DOMAIN profiles : profiles[i].hasCovT})
    IN  IF Len(cur) < 2
        THEN [kind |-> "list", calls |-> <<>>, table |-> <<>>, s3 |-> SkipMark \o scaffold]
        ELSE LET pairs == ComparedPairs(Len(cur), includeSelf)
                 done == [k \in DOMAIN pairs |->
                             ComparePair(scaffold, cur[pairs[k][1]], cur[pairs[k][2]],
                                         mLen, minCov, minFreq)]
             IN  IF \E k \in DOMAIN done : done[k].raised
                 THEN [kind |-> "raise", calls |-> pairs, table |-> <<>>, s3 |-> scaffold]
                 ELSE [kind |-> "list", calls |-> pairs,
                       table |-> Flatten([k \in DOMAIN done |-> done[k].rows]),
                       s3 |-> scaffold]

\* Inputs.  The scaffold is "a", as long as there are positions.  Every
\* sample with data has depth 1 at every position among the reads without
\* mismatch, and MaxDepth - 1 more at the positions 1..k among the reads of
\* level lv; the minimum depth is MaxDepth, so a position is covered from
\* level lv on when it is one of 1..k.
TheScaffold == <<"a">>

SampleName(i) == <<"S", i>>

CovPattern(k, lv) ==
    LET thin == [p \in Positions |-> 1]
        more == [p \in 1..k |-> MaxDepth - 1]
    IN  IF k = 0 THEN (0 :> thin)
        ELSE IF lv = 0 THEN (0 :> SeriesAdd(thin, more))
        ELSE (0 :> thin) @@ (lv :> more)

\* The variant rows: a site with consensus C over the reference A, a site
\* with consensus A and minor allele T, both among the reads without
\* mismatch, and a site fixed for T that shows at the highest level only.
VariantKinds == <<"het_CA", "het_AT", "fixed_T">>

VariantRow(kind, p) ==
    LET none == [b \in Bases |-> 0]
    IN  IF kind = "het_CA"
        THEN [position |-> p, mm |-> 0, conBase |-> "C", refBase |-> "A", varBase |-> "A",
              baseCoverage |-> 4, counts |-> [none EXCEPT !["C"] = 2, !["A"] = 2],
              allele_count |-> 2]
        ELSE IF kind = "het_AT"
        THEN [position |-> p, mm |-> 0, conBase |-> "A", refBase |-> "A", varBase |-> "T",
              baseCoverage |-> 4, counts |-> [none EXCEPT !["A"] = 2, !["T"] = 2],
              allele_count |-> 2]
        ELSE [position |-> p, mm |-> MaxMM, conBase |-> "T", refBase |-> "A", varBase |-> "T",
              baseCoverage |-> 3, counts |-> [none EXCEPT !["T"] = 3],
              allele_count |-> 1]

\* the slots (sample, position, kind) of the variant rows of two samples,
\* numbered from 0
NumRowSlots == 2 * MaxPos * Len(VariantKinds)

RowSlotSample(n) == (n \div (MaxPos * Len(VariantKinds))) + 1

RowSlotRow(n) ==
    VariantRow(VariantKinds[(n % Len(VariantKinds)) + 1],
               ((n \div Len(VariantKinds)) % MaxPos) + 1)

\* a stored table has one row per position and level
OneRowPerLevel(slots) ==
    \A i, j \in DOMAIN slots :
        (/\ i # j
         /\ RowSlotSample(slots[i]) = RowSlotSample(slots[j])
         /\ RowSlotRow(slots[i]).position = RowSlotRow(slots[j]).position)
            => RowSlotRow(slots[i]).mm # RowSlotRow(slots[j]).mm

\* the rows of a sample, listed from the last slot down (so that the sort
\* of _get_SNP_table has work to do)
RowsOf(slots, sample) ==
    LET mine == Pick(slots, {i \in DOMAIN slots : RowSlotSample(slots[i]) = sample})
    IN  Reversed([i \in DOMAIN mine |-> RowSlotRow(mine[i])])

Profile(i, has, covT, rows) ==
    [name |-> SampleName(i), hasCovT |-> has, covT |-> covT, snvRows |-> rows,
     minorColumn |-> "allele_count"]

\* two samples with data and at most MaxSNPRows variant rows between them
TwoSampleInputs ==
    /\ \E k1, k2 \in 0..MaxPos, lv1, lv2 \in Levels, n \in 0..MaxSNPRows :
        \E slots \in IncreasingBelow(n, NumRowSlots) :
            /\ OneRowPerLevel(slots)
            /\ samples = << Profile(1, TRUE, CovPattern(k1, lv1), RowsOf(slots, 1)),
                            Profile(2, TRUE, CovPattern(k2, lv2), RowsOf(slots, 2)) >>
    /\ include_self_comparisons \in BOOLEAN

\* up to MaxSamples samples without variants, some without data
ManySampleInputs ==
    /\ \E n \in 1..MaxSamples :
        \E has \in [1..n -> BOOLEAN], ks \in [1..n -> 0..MaxPos] :
            /\ \A i \in 1..n : (~has[i]) => ks[i] = 0
            /\ samples = [i \in 1..n |->
                            Profile(i, has[i],
                                    IF has[i] THEN CovPattern(ks[i], 0) ELSE <<>>, <<>>)]
    /\ include_self_comparisons \in BOOLEAN

InitScaffold ==
    /\ TwoSampleInputs \/ ManySampleInputs
    /\ kwargs_min_cov = <<MaxDepth>>
    /\ min_freq = << Frac(1, 20) >>
    /\ scaffResult = <<>>
    /\ ppc = "input"
    /\ IdleSched
    /\ IdleCov
    /\ IdleAni
    /\ IdleGreedy
    /\ IdleRow

CompareScaffold ==
    /\ ppc = "input"
    /\ scaffResult' = compare_scaffold(TheScaffold, samples, MaxPos,
                                       include_self_comparisons, kwargs_min_cov, min_freq)
    /\ ppc' = "done"
    /\ UNCHANGED <<samples, include_self_comparisons, kwargs_min_cov, min_freq>>
    /\ UNCHANGED otherThanPair

NextScaffold == CompareScaffold

SpecScaffold == InitScaffold /\ [][NextScaffold]_vars

(***************************************************************************)
(* Greedy clustering: greedy_main and compare_Sprofiles_wrapper.           *)
(* A row of Ddb is a record of its columns; name2cluster and cluster2rep   *)
(* are functions on the keys they have.                                    *)
(***************************************************************************)
\* line 67
DefaultGani == Frac(99, 100)

\* line 68
DefaultGcov == Frac(1, 2)

\* line 113: the column of Ddb the loop reads the identity from
AniColumn == "popANI"

\* Python's a >= b on floats, false when a is NaN
Geq(a, b) == IsNumber(a) /\ a.num * b.den >= b.num * a.den

\* lines 150-155: the row of Ddb for one representative
DdbRow(name1, name2, ani, cov, gani, gcov) ==
    [name1 |-> name1, name2 |-> name2, ANI |-> ani, cov |-> cov,
     g_ani |-> gani, g_cov |-> gcov, g_mm |-> <<>>]

\* lines 98-102: the representatives of the clusters 0..clusters-1, as a list
CompareNames(reps, n) == [i \in 1..n |-> reps[i - 1]]

\* lines 111-117: the index of the first row of Ddb that qualifies, 0 when
\* none does
FirstQualifying(D, gani, gcov) ==
    LET q == {i \in DOMAIN D : Geq(D[i][AniColumn], gani) /\ Geq(D[i].cov, gcov)}
    IN  IF q = {} THEN 0 ELSE CHOOSE i \in q : \A j \in q : i <= j

\* the values compare_Sprofiles returns for a pair of samples
CovValues == {Frac(0, 1), Frac(1, 1)}

GaniOptions == {<<>>, << Frac(1, 2) >>}

GcovOptions == {<<>>, << Frac(1, 1) >>}

InitGreedy ==
    /\ \E n \in 1..MaxSamples : names \in [1..n -> {SampleName(i) : i \in 1..MaxSamples}]
    /\ g_ani \in GaniOptions
    /\ g_cov \in GcovOptions
    /\ name2cluster = <<>>
    /\ cluster2rep = <<>>
    /\ clusters = 0
    /\ cursor = 0
    /\ Ddb = <<>>
    /\ ndbs = 0
    /\ gpc = "setup"
    /\ gerr = "none"
    /\ IdleSched
    /\ IdleCov
    /\ IdleAni
    /\ IdlePair
    /\ IdleRow

\* lines 72-83: the first sample seeds cluster 0, then the names are
\* asserted to be unique
GreedySetup ==
    /\ gpc = "setup"
    /\ name2cluster' = (names[1] :> 0)
    /\ cluster2rep' = (0 :> names[1])
    /\ clusters' = 1
    /\ cursor' = 2
    /\ IF Cardinality(Range(names)) = Len(names)
       THEN gpc' = "loop" /\ gerr' = gerr
       ELSE gpc' = "raised" /\ gerr' = "AssertionError"
    /\ UNCHANGED <<names, g_ani, g_cov, Ddb, ndbs>>
    /\ UNCHANGED otherThanGreedy

\* lines 96-123: one iteration of the loop.  The sample is compared with
\* every representative (a comparison can raise, as when no scaffold of the
\* pair has data, line 444), then the rows of Ddb are read in order.
GreedyIteration ==
    /\ gpc = "loop"
    /\ cursor <= Len(names)
    /\ LET name == names[cursor]
           reps == CompareNames(cluster2rep, clusters)
           gani == IF g_ani = <<>> THEN DefaultGani ELSE g_ani[1]
           gcov == IF g_cov = <<>> THEN DefaultGcov ELSE g_cov[1]
       IN  \E raises \in BOOLEAN :
           \E anis \in [DOMAIN reps -> PopANIValues], covs \in [DOMAIN reps -> CovValues] :
              IF raises
              THEN /\ (\A i \in DOMAIN reps : anis[i] = NaN /\ covs[i] = Frac(0, 1))
                   /\ gpc' = "raised"
                   /\ gerr' = "ValueError"
                   /\ UNCHANGED <<name2cluster, cluster2rep, clusters, cursor, Ddb, ndbs>>
              ELSE LET D == [i \in DOMAIN reps |->
                               DdbRow(name, reps[i], anis[i], covs[i], g_ani, g_cov)]
                   IN  /\ Ddb' = D
                       /\ ndbs' = ndbs + 1
                       /\ IF \E i \in DOMAIN D : AniColumn \notin DOMAIN D[i]
                          THEN /\ gpc' = "raised"
                               /\ gerr' = "KeyError"
                               /\ UNCHANGED <<name2cluster, cluster2rep, clusters, cursor>>
                          ELSE LET found == FirstQualifying(D, gani, gcov)
                               IN  /\ IF found # 0
                                      THEN /\ name2cluster' =
                                                (name :> name2cluster[D[found].name2]) @@ name2cluster
                                           /\ UNCHANGED <<cluster2rep, clusters>>
                                      ELSE /\ name2cluster' = (name :> clusters) @@ name2cluster
                                           /\ cluster2rep' = (clusters :> name) @@ cluster2rep
                                           /\ clusters' = clusters + 1
                                   /\ cursor' = cursor + 1
                                   /\ UNCHANGED <<gpc, gerr>>
    /\ UNCHANGED <<names, g_ani, g_cov>>
    /\ UNCHANGED otherThanGreedy

\* lines 126-128: after the loop, pd.concat(ndbs) raises on an empty list
GreedyOutput ==
    /\ gpc = "loop"
    /\ cursor > Len(names)
    /\ IF ndbs = 0
       THEN gpc' = "raised" /\ gerr' = "ValueError"
       ELSE gpc' = "done" /\ gerr' = gerr
    /\ UNCHANGED <<names, g_ani, g_cov, name2cluster, cluster2rep, clusters, cursor, Ddb, ndbs>>
    /\ UNCHANGED otherThanGreedy

NextGreedy ==
    \/ GreedySetup
    \/ GreedyIteration
    \/ GreedyOutput

SpecGreedy == InitGreedy /\ [][NextGreedy]_vars

(***************************************************************************)
(* One row of the merged table: call_con_snps and call_pop_snps, and       *)
(* is_present on its own.                                                  *)
(***************************************************************************)
\* Inputs: a side of the row is absent or a variant row over the reference
\* A: nCon reads of the consensus base, nVar of the minor base (none when
\* the minor base is the consensus base), and an allele count of 1 or 2.
SideBases == {"A", "C", "T"}

SideRow(con, var, nCon, nVar, alleles) ==
    [position |-> 1, mm |-> 0, conBase |-> con, refBase |-> "A", varBase |-> var,
     baseCoverage |-> nCon + nVar,
     counts |-> [b \in Bases |-> IF b = con THEN nCon ELSE IF b = var THEN nVar ELSE 0],
     allele_count |-> alleles]

SideRows ==
    {SideRow(con, con, nCon, 0, 1) : con \in SideBases, nCon \in 1..MaxCount}
    \cup {SideRow(sh[1], sh[2], n[1], n[2], alleles) :
            sh \in {s \in SideBases \X SideBases : s[1] # s[2]},
            n \in {c \in (1..MaxCount) \X (1..MaxCount) : c[2] <= c[1]},
            alleles \in {1, 2}}

MinFreqOptions == {<<>>, << Frac(1, 20) >>}

InitRow ==
    /\ \E r1, r2 \in SideRows \cup {AbsentRow} :
        /\ r1 # AbsentRow \/ r2 # AbsentRow
        /\ mergedRow = [position |-> 1, r1 |-> r1, r2 |-> r2]
    /\ hasMinorColumns \in BOOLEAN
    /\ rowMinFreq \in MinFreqOptions
    /\ rowFlags = <<>>
    /\ rpc = "input"
    /\ presentCount = 0
    /\ presentTotal = 0
    /\ presentFreq = <<>>
    /\ presentResult = "none"
    /\ ipc = "idle"
    /\ IdleSched
    /\ IdleCov
    /\ IdleAni
    /\ IdlePair
    /\ IdleGreedy

\* lines 845-846 for one row, min_freq being the one of compare_scaffold
ClassifyRow ==
    /\ rpc = "input"
    /\ rowFlags' = [consensus_SNP |-> call_con_snps(mergedRow),
                    population_SNP |-> call_pop_snps(mergedRow, hasMinorColumns,
                                                     MinFreqOf(rowMinFreq))]
    /\ rpc' = "done"
    /\ UNCHANGED <<mergedRow, hasMinorColumns, rowMinFreq>>
    /\ UNCHANGED otherThanRow

NextRow == ClassifyRow

SpecRow == InitRow /\ [][NextRow]_vars

\* is_present on any count and depth up to twice MaxCount
PresentFreqOptions == {Frac(1, 20), Frac(1, 2), Frac(5, 1)}

InitPresent ==
    /\ presentCount \in 0..(2 * MaxCount)
    /\ presentTotal \in 0..(2 * MaxCount)
    /\ presentFreq \in PresentFreqOptions
    /\ presentResult = "none"
    /\ ipc = "input"
    /\ mergedRow = <<>>
    /\ hasMinorColumns = FALSE
    /\ rowMinFreq = <<>>
    /\ rowFlags = <<>>
    /\ rpc = "idle"
    /\ IdleSched
    /\ IdleCov
    /\ IdleAni
    /\ IdlePair
    /\ IdleGreedy

CallIsPresent ==
    /\ ipc = "input"
    /\ presentResult' = is_present(presentCount, presentTotal, presentFreq)
    /\ ipc' = "done"
    /\ UNCHANGED <<presentCount, presentTotal, presentFreq>>
    /\ UNCHANGED otherThanPresent

NextPresent == CallIsPresent

SpecPresent == InitPresent /\ [][NextPresent]_vars

(***************************************************************************)
(* Claims about the scheduler.                                             *)
(***************************************************************************)
Requested == Range(scaffolds_to_compare)

Returned == pc \in {"done", "raised"}

AllRaise(outcomes) ==
    outcomes # <<>> /\ \A i \in DOMAIN outcomes : outcomes[i] = "raise"

\* C1: when no requested scaffold is skipped and a scaffold's comparison
\* raises on its first attempt (the wrapper returns the failure marker) and
\* succeeds on its second, the scheduler puts it in the failed set, retries
\* it exactly once, and the returned table has the rows of every requested
\* scaffold.
C1_RetryRestoresAllRows ==
    ( /\ Returned
      /\ \A s \in Requested : hasData[s]
      /\ \A s \in Requested : attempts[s] \in {<<"ok">>, <<"raise">>, <<"raise", "ok">>}
      /\ \E s \in Requested : attempts[s][1] = "raise" )
    => /\ pc = "done"
       /\ \A s \in Requested :
            attempts[s][1] = "raise" => s \in failed_scaffs /\ attempts[s] = <<"raise", "ok">>
       /\ Requested \subseteq Range(Cdb)

\* C2: when a scaffold's comparison raises on every attempt,
\* compare_scaffolds still returns a table: the failing scaffold has no
\* rows in it and every other scaffold that was compared successfully has
\* its rows in it.
C2_PersistentFailureIsDropped ==
    ( /\ Returned
      /\ \E s \in Requested : AllRaise(attempts[s]) )
    => /\ pc = "done"
       /\ \A s \in Requested :
            /\ AllRaise(attempts[s]) => s \notin Range(Cdb)
            /\ (hasData[s] /\ attempts[s] # <<>> /\ attempts[s][Len(attempts[s])] = "ok")
                 => s \in Range(Cdb)

\* the scaffolds whose first task ran compare_scaffold to its end on fewer
\* than two samples with data
YieldedSkip(s) ==
    /\ s \in Requested
    /\ ~hasData[s]
    /\ attempts[s] # <<>>
    /\ attempts[s][1] = "ok"

\* C3: a scaffold with data in fewer than two samples yields a result
\* marked skipped that carries the scaffold's name; it is put in the
\* skipped set and never in the failed set, it is not submitted to the
\* retry pool, and it has no rows in the returned table.
C3_SkippedNeverRetried ==
    \A s \in ScaffoldNames :
        YieldedSkip(s) =>
            /\ \E i \in DOMAIN ScaffProfiles :
                  /\ ScaffProfiles[i].kind = "list"
                  /\ PyPrefix(ScaffProfiles[i].s3, 4) = SkipPrefix
                  /\ PySuffix(ScaffProfiles[i].s3, 5) = s
                  /\ ScaffProfiles[i].rows = <<>>
            /\ pc \in {"retry", "assemble", "done"} => s \in skipped
            /\ s \notin failed_scaffs
            /\ Len(attempts[s]) = 1
            /\ s \notin Range(Cdb)

\* a run that returned a table after a retry pass, with a skipped scaffold
C3_Witness ==
    /\ pc = "done"
    /\ failed_scaffs # {}
    /\ \E s \in ScaffoldNames : YieldedSkip(s)

(***************************************************************************)
(* Claims about the coverage overlap.                                      *)
(***************************************************************************)
RECURSIVE SumOver(_, _)
SumOver(S, f) ==
    IF S = {} THEN 0
    ELSE LET x == CHOOSE y \in S : TRUE
         IN  f[x] + SumOver(S \ {x}, f)

\* the depth of a position counting the reads with at most mm mismatches
CumulativeDepth(covT, mm, p) ==
    LET ks == {k \in DOMAIN covT : k <= mm /\ p \in DOMAIN covT[k]}
    IN  SumOver(ks, [k \in ks |-> covT[k][p]])

\* the positions a sample covers at the minimum depth at level mm
CoveredAt(covT, mm) == {p \in Positions : CumulativeDepth(covT, mm, p) >= min_cov}

\* C7: with non-negative depths, the overlap set of a mismatch level
\* contains the overlap set of every lower evaluated level.
C7_OverlapGrowsWithLevel ==
    cpc = "done" =>
        \A M, N \in DOMAIN mm2overlap :
            N >= M => mm2overlap[M] \subseteq mm2overlap[N]

\* a pair whose overlap is non-empty at a level and larger at a higher one
C7_Witness ==
    /\ cpc = "done"
    /\ \E M, N \in DOMAIN mm2overlap :
        /\ M < N
        /\ mm2overlap[M] # {}
        /\ mm2overlap[M] # mm2overlap[N]

Ceiling == IF g_mm = <<>> THEN DefaultGmm ELSE g_mm[1]

\* the rows the aggregation is to use: per scaffold and pair, the row of
\* the highest mismatch level not above the ceiling
UsedRows ==
    {r \in Range(aniCdb) :
        /\ r.mm <= Ceiling
        /\ \A o \in Range(aniCdb) :
              (PairKey(o) = PairKey(r) /\ o.mm <= Ceiling) => o.mm <= r.mm}

RECURSIVE SumBasesOf(_)
SumBasesOf(S) ==
    IF S = {} THEN 0
    ELSE LET r == CHOOSE x \in S : TRUE
         IN  r.compared_bases_count + SumBasesOf(S \ {r})

\* the sum of popANI x compared bases over a set of rows, undefined popANI
\* counting zero
RECURSIVE SumWeightedOf(_)
SumWeightedOf(S) ==
    IF S = {} THEN Frac(0, 1)
    ELSE LET r == CHOOSE x \in S : TRUE
             term == IF r.popANI = NaN THEN Frac(0, 1)
                     ELSE Frac(r.popANI.num * r.compared_bases_count, r.popANI.den)
         IN  FracAdd(term, SumWeightedOf(S \ {r}))

\* C10: calc_cov_ani uses, per (scaffold, name1, name2), only the row of the
\* highest mismatch level <= the ceiling; popANI is the sum of popANI x
\* compared bases over those rows divided by their total compared bases
\* (undefined popANI counting zero, NaN when the total is 0) and coverage
\* is the total compared bases / genome length.
C10_GenomeANIUsesTopLevelRows ==
    apc = "done" =>
        LET total == SumBasesOf(UsedRows)
            w == SumWeightedOf(UsedRows)
        IN  /\ aniResult.cov.den = BIN_LENGTH
            /\ aniResult.cov.num = total
            /\ total = 0 => aniResult.popANI = NaN
            /\ total # 0 =>
                  /\ aniResult.popANI # NaN
                  /\ FracEq(aniResult.popANI, Frac(w.num, w.den * total))

\* a table with two levels of one scaffold and pair under the ceiling, of
\* different popANI, and a row of undefined popANI among the used ones
C10_Witness ==
    /\ apc = "done"
    /\ aniResult.popANI # NaN
    /\ \E r, o \in Range(aniCdb) :
        /\ PairKey(r) = PairKey(o)
        /\ r.mm < o.mm
        /\ o.mm <= Ceiling
        /\ r.popANI # o.popANI
        /\ r.compared_bases_count > 0
        /\ o.compared_bases_count > 0
    /\ \E r \in UsedRows : r.popANI = NaN

(***************************************************************************)
(* Claims about the comparison of one scaffold.                            *)
(***************************************************************************)
\* the samples with data for the scaffold, in order
WithData == Pick(samples, {i \in DOMAIN samples : samples[i].hasCovT})

MinCov == IF kwargs_min_cov = <<>> THEN DefaultMinCov ELSE kwargs_min_cov[1]

MinFreq == IF min_freq = <<>> THEN DefaultMinFreq ELSE min_freq[1]

Compared == ppc = "done" /\ scaffResult.kind = "list" /\ scaffResult.s3 = TheScaffold

\* how often the pairwise comparison ran on the i-th and j-th sample
TimesCompared(i, j) ==
    Cardinality({k \in DOMAIN scaffResult.calls : scaffResult.calls[k] = <<i, j>>})

\* the rows of the table for a pair of names
RowsFor(name1, name2) ==
    {r \in Range(scaffResult.table) : r.name1 = name1 /\ r.name2 = name2}

Metrics(r) ==
    <<r.mm, r.coverage_overlap, r.compared_bases_count, r.consensus_SNPs,
      r.population_SNPs, r.conANI, r.popANI>>

\* the positions where the depth of a sample over the levels up to mm is at
\* least d
PositionsWithDepth(s, mm, d) == {p \in Positions : CumulativeDepth(s.covT, mm, p) >= d}

\* C4: with at least two samples having data, the pairwise comparison runs
\* exactly once for each unordered pair of distinct samples, never in both
\* orders, and runs on a sample with itself, once, exactly when
\* include_self_comparisons is set.
C4_EachUnorderedPairOnce ==
    (ppc = "done" /\ Len(WithData) >= 2) =>
        \A i, j \in DOMAIN WithData :
            /\ i < j => TimesCompared(i, j) + TimesCompared(j, i) = 1
            /\ i = j => TimesCompared(i, i) = IF include_self_comparisons THEN 1 ELSE 0

\* three samples with data, self comparisons included: six comparisons
C4_Witness ==
    /\ ppc = "done"
    /\ Len(WithData) = 3
    /\ Len(samples) = 3
    /\ include_self_comparisons
    /\ Len(scaffResult.calls) = 6

\* C5: comparing sample A with sample B gives, at every mismatch level, the
\* same coverage overlap, compared bases, consensus and population SNP
\* counts, conANI and popANI as comparing B with A.
C5_ComparisonIsSymmetric ==
    (Compared /\ Len(WithData) = 2) =>
        LET A == WithData[1]
            B == WithData[2]
            swapped == ComparePair(TheScaffold, B, A, MaxPos, MinCov, MinFreq)
        IN  /\ ~swapped.raised
            /\ {Metrics(r) : r \in RowsFor(A.name, B.name)}
                  = {Metrics(r) : r \in Range(swapped.rows)}
            /\ Cardinality(RowsFor(A.name, B.name)) = Len(swapped.rows)

\* two samples of different coverage with different variants at a position
\* both cover, a population SNP
C5_Witness ==
    /\ Compared
    /\ Len(WithData) = 2
    /\ WithData[1].snvRows # <<>>
    /\ WithData[2].snvRows # <<>>
    /\ WithData[1].snvRows # WithData[2].snvRows
    /\ \E r \in RowsFor(WithData[1].name, WithData[2].name) :
        /\ 0 < r.coverage_overlap.num
        /\ r.coverage_overlap.num < r.coverage_overlap.den
        /\ r.population_SNPs > 0

\* the rows of the comparison of a sample with itself show no SNP, and a
\* coverage overlap of 1 at the levels where the sample has a position of
\* cumulative depth d or more
SelfComparisonClean(d) ==
    (Compared /\ include_self_comparisons) =>
        \A i \in DOMAIN WithData :
            LET s == WithData[i]
            IN  /\ \A mm \in DOMAIN s.covT :
                    \E r \in RowsFor(s.name, s.name) : r.mm = mm
                /\ \A r \in RowsFor(s.name, s.name) :
                    PositionsWithDepth(s, r.mm, d) # {} =>
                        /\ r.coverage_overlap.den > 0
                        /\ FracEq(r.coverage_overlap, Frac(1, 1))
                        /\ r.consensus_SNPs = 0
                        /\ r.population_SNPs = 0

C8_ANIDefinedAndInRange ==
    Compared =>
        \A r \in Range(scaffResult.table) :
            /\ (r.conANI = NaN) <=> (r.compared_bases_count = 0)
            /\ (r.popANI = NaN) <=> (r.compared_bases_count = 0)
            /\ r.compared_bases_count > 0 =>
                /\ r.consensus_SNPs <= r.compared_bases_count
                /\ r.population_SNPs <= r.compared_bases_count
                /\ r.conANI.den > 0
                /\ 0 <= r.conANI.num /\ r.conANI.num <= r.conANI.den
                /\ r.popANI.den > 0
                /\ 0 <= r.popANI.num /\ r.popANI.num <= r.popANI.den

\* a table with a row without compared bases and a row whose compared
\* bases all are consensus SNPs, beside a variant at a position that is not
\* compared
C8_Witness ==
    /\ Compared
    /\ \E r \in Range(scaffResult.table) : r.compared_bases_count = 0 /\ r.conANI = NaN
    /\ \E r \in Range(scaffResult.table) :
        /\ r.compared_bases_count > 0
        /\ r.consensus_SNPs = r.compared_bases_count
        /\ r.name1 # r.name2
        /\ \E i \in DOMAIN samples : \E k \in DOMAIN samples[i].snvRows :
            \A j \in DOMAIN samples :
                samples[i].snvRows[k].position \notin PositionsWithDepth(samples[j], r.mm, MinCov)

(***************************************************************************)
(* Claims about the greedy clustering.                                     *)
(***************************************************************************)
Gani == IF g_ani = <<>> THEN DefaultGani ELSE g_ani[1]

Gcov == IF g_cov = <<>> THEN DefaultGcov ELSE g_cov[1]

UniqueNames == Cardinality(Range(names)) = Len(names)

\* the rows of a Ddb whose identity and coverage reach the thresholds
QualifyingRows(D) == {i \in DOMAIN D : Geq(D[i].ANI, Gani) /\ Geq(D[i].cov, Gcov)}

\* C11: the first sample seeds cluster 0 as its own representative; each
\* later sample, once compared with the representatives, joins the
\* lowest-numbered cluster whose representative yields popANI >= g_ani and
\* coverage >= g_cov, or opens the next unused cluster with itself as
\* representative when none does.
C11_JoinsFirstQualifyingCluster ==
    [][ /\ gpc = "setup" =>
            name2cluster'[names[1]] = 0 /\ cluster2rep'[0] = names[1] /\ clusters' = 1
        /\ (gpc = "loop" /\ cursor <= Len(names) /\ ndbs' = ndbs + 1) =>
            LET name == names[cursor]
                q == QualifyingRows(Ddb')
            IN  /\ name \in DOMAIN name2cluster'
                /\ q # {} =>
                    LET first == CHOOSE i \in q : \A j \in q : i <= j
                    IN  /\ name2cluster'[name] = first - 1
                        /\ cluster2rep[first - 1] = Ddb'[first].name2
                        /\ cluster2rep' = cluster2rep
                /\ q = {} =>
                    /\ name2cluster'[name] = clusters
                    /\ cluster2rep' = (clusters :> name) @@ cluster2rep
                    /\ clusters' = clusters + 1
      ]_vars

\* C12: for one or more uniquely named samples whose comparisons return,
\* the loop ends, and when it has ended every sample has a cluster id.
C12_EverySampleAssigned ==
    (UniqueNames /\ gpc \in {"raised", "done"} /\ gerr # "ValueError") =>
        \A i \in DOMAIN names : names[i] \in DOMAIN name2cluster

(***************************************************************************)
(* Claims about the classification of a position.                          *)
(***************************************************************************)
\* the side of a one-sided row that has the variant
OneSided == (mergedRow.r1 = AbsentRow) # (mergedRow.r2 = AbsentRow)

PresentSide == IF mergedRow.r1 = AbsentRow THEN mergedRow.r2 ELSE mergedRow.r1

BothSided == mergedRow.r1 # AbsentRow /\ mergedRow.r2 # AbsentRow

\* C13: without a min_freq option the presence test uses the minimum
\* frequency 0.05: the population flag of a row is the one the test gives
\* with count >= threshold(depth) and count/depth >= 0.05.
C13_DefaultMinFreqIsFivePercent ==
    (rpc = "done" /\ rowMinFreq = <<>>) =>
        rowFlags.population_SNP = call_pop_snps(mergedRow, hasMinorColumns, Frac(1, 20))

\* the classified positions of the pairs compare_scaffold compared
ClassifiedPositions ==
    UNION {Range(ComparePair(TheScaffold, WithData[c[1]], WithData[c[2]],
                             MaxPos, MinCov, MinFreq).Mdb) :
              c \in Range(scaffResult.calls)}

\* C14: in every row of the table the population SNPs are at most the
\* consensus SNPs, every position flagged as a population SNP being
\* flagged as a consensus SNP too, so popANI >= conANI where both are
\* defined.
C14_PopulationSNPsAreConsensusSNPs ==
    Compared =>
        /\ \A r \in Range(scaffResult.table) :
            /\ r.population_SNPs <= r.consensus_SNPs
            /\ r.compared_bases_count > 0 =>
                  r.popANI.num * r.conANI.den >= r.conANI.num * r.popANI.den
        /\ \A x \in ClassifiedPositions : x.population_SNP = "True" => x.consensus_SNP

\* a row of the table with a population SNP and a consensus SNP that is
\* not a population SNP
C14_Witness ==
    /\ Compared
    /\ \E r \in Range(scaffResult.table) :
        /\ r.population_SNPs > 0
        /\ r.consensus_SNPs > r.population_SNPs
        /\ r.popANI # r.conANI

\* the rows of a sorted variant table observed at level mm or below
UpToLevel(SNPtable, mm) == Pick(SNPtable, {i \in DOMAIN SNPtable : SNPtable[i].mm <= mm})

\* the positions of level mm classified from the rows of level mm or below
ClassifiedUpToLevel(s1, s2, mm) ==
    LevelMdb(UpToLevel(get_SNP_table(s1), mm), UpToLevel(get_SNP_table(s2), mm), mm,
             calc_mm2overlap(s1.covT, s2.covT, MinCov).mm2overlap[mm],
             s1.minorColumn = s2.minorColumn, MinFreq)

\* C15: the SNP counts of mismatch level L come from the variant rows of
\* level <= L only, per sample and position the one of the highest such
\* level; a row observed only above L does not influence them.
C15_LevelUsesRowsUpToLevel ==
    Compared =>
        \A c \in Range(scaffResult.calls) :
            LET s1 == WithData[c[1]]
                s2 == WithData[c[2]]
            IN  \A r \in RowsFor(s1.name, s2.name) :
                    LET expected == ClassifiedUpToLevel(s1, s2, r.mm)
                    IN  /\ r.consensus_SNPs = CountRows(expected, r.mm, TRUE)
                        /\ r.population_SNPs = CountRows(expected, r.mm, FALSE)

\* C16: at a position that only one restricted table has, the other sample
\* counts as having the reference base as consensus: the position is a
\* consensus SNP exactly when the consensus base of the sample that has it
\* differs from the reference base.
C16_OneSidedConsensusAgainstReference ==
    (rpc = "done" /\ OneSided) =>
        (rowFlags.consensus_SNP <=> PresentSide.conBase # PresentSide.refBase)

C18_BothSidedClassification ==
    (rpc = "done" /\ BothSided /\ mergedRow.r1.conBase # mergedRow.r2.conBase) =>
        LET r1 == mergedRow.r1
            r2 == mergedRow.r2
            f == MinFreqOf(rowMinFreq)
            passes(count, total) ==
                count >= ModelThreshold(total) /\ count * f.den >= f.num * total
        IN  rowFlags.population_SNP =
                IF passes(r2.counts[r1.conBase], r2.baseCoverage)
                      \/ passes(r1.counts[r2.conBase], r1.baseCoverage)
                THEN "False"
                ELSE IF r1.allele_count > 1 /\ r2.allele_count > 1 /\ r1.varBase = r2.varBase
                THEN "False"
                ELSE "True"

\* C19: is_present never raises on a depth of zero: for total 0 and any
\* count it returns not present.
C19_ZeroDepthIsNotPresent ==
    (ipc = "done" /\ presentTotal = 0) => presentResult = "False"

(***************************************************************************)
(* Claims about the order of completion.                                   *)
(***************************************************************************)
\* the first task of every requested scaffold has been collected, none of
\* them lost with its worker
FirstPassCollected ==
    /\ pc # "first"
    /\ \A s \in Range(scaffolds_to_compare) :
          attempts[s] # <<>> /\ attempts[s][1] # "lost"

\* what the in-process loop collects from the same tasks: their results in
\* the order of the request
SequentialProfiles ==
    [i \in DOMAIN scaffolds_to_compare |->
        LET s == scaffolds_to_compare[i]
        IN  scaffold_profile_wrapper(s, hasData[s], attempts[s][1])]

SequentialRaises == \E i \in DOMAIN SequentialProfiles : ~CanIndex3(SequentialProfiles[i])

\* C20: with a pool of more than one worker, whatever the order in which
\* the tasks complete, compare_scaffolds computes the skipped set, the
\* failed set and the set of rows that the in-process run computes from the
\* same tasks (and raises where that run raises).
C20_CompletionOrderIsIrrelevant ==
    (processes > 1 /\ FirstPassCollected) =>
        IF SequentialRaises
        THEN pc = "raised" /\ err = "KeyError"
        ELSE LET skip == SkippedSet(SequentialProfiles)
                 failed == FailedSet(scaffolds_to_compare, SequentialProfiles, skip)
                 dbs == KeptTables(SequentialProfiles)
             IN  /\ skipped = skip
                 /\ failed_scaffs = failed
                 /\ pc \in {"assemble", "done", "raised"}
                 /\ pc = "raised" => (err = "ValueError" /\ dbs = <<>>)
                 /\ pc = "done" => (dbs # <<>> /\ Range(Cdb) = Range(Concat(dbs)))

\* a pool run whose tasks completed against the order of the request, one
\* scaffold skipped and one compared
C20_Witness ==
    /\ processes > 1
    /\ FirstPassCollected
    /\ pc = "done"
    /\ skipped # {}
    /\ Cdb # <<>>
    /\ Len(ScaffProfiles) = Len(scaffolds_to_compare)
    /\ \E i \in DOMAIN ScaffProfiles : ScaffProfiles[i] # SequentialProfiles[i]

(***************************************************************************)
(* Claims about the names of the scaffolds.                                *)
(***************************************************************************)
\* C21: the classification of the results does not depend on the
\* scaffold's name: once compare_scaffolds has returned from a run in
\* which no task raised (no failure marker is among the results), every
\* requested scaffold with data in at least two samples whose comparison
\* ran to its end has its rows in the final table, a scaffold whose name
\* begins with 'skip' included.
C21_ClassificationIgnoresName ==
    LET NoTaskRaised ==
            \A s \in Requested :
                \A i \in DOMAIN attempts[s] : attempts[s][i] # "raise"
        ComparedWithData(s) ==
            /\ s \in Requested
            /\ hasData[s]
            /\ attempts[s] # <<>>
            /\ attempts[s][Len(attempts[s])] = "ok"
    IN  (Returned /\ NoTaskRaised) =>
            \A s \in ScaffoldNames :
                ComparedWithData(s) => pc = "done" /\ s \in Range(Cdb)

====
